---- MODULE Spec2Model ----
(***************************************************************************)
(* Model of main.py of matrix-backend: a FastAPI service that keeps one    *)
(* state document (mode, brightness, rotation), persists it through        *)
(* StateStore and pushes it to the WebSocket connections held by Hub.      *)
(*                                                                         *)
(* Scheduling: everything runs on one asyncio event loop, so a handler     *)
(* runs without interruption from one suspension point to the next.  The   *)
(* suspension points are: waiting for hub.lock when it is taken, the       *)
(* return of each `await ws.send_json`, `await ws.accept()` and            *)
(* `await ws.receive_text()`.  A send hands its message to the transport   *)
(* when it is called; its outcome (delivered or raised) is fixed there.    *)
(* A send to a socket that is no longer usable raises; a send to a usable  *)
(* socket may raise as well.  hub.lock is an asyncio.Lock: first come,     *)
(* first served.                                                           *)
(***************************************************************************)
EXTENDS Integers, Sequences, FiniteSets, TLC

(* ---------------- bounds ---------------- *)
NumRequests == 2
NumConnections == 2

Requests == 1..NumRequests
Connections == 1..NumConnections

(* ---------------- program constants ---------------- *)
API_TOKEN == "MY_SUPER_TOKEN_123"
DefaultState == [mode |-> 0, brightness |-> 60, rotation |-> 0]
MinBrightness == 0
MaxBrightness == 100
FullTurn == 360
MinMode == 0

HTTP_OK == 200
HTTP_UNAUTHORIZED == 401
HTTP_UNPROCESSABLE == 422

(* ---------------- inputs ---------------- *)
\* Optional[int]: <<>> is None, <<v>> is the integer v.
ModeInputs == {<<>>, <<3>>, <<-1>>}
BrightnessInputs == {<<>>, <<100>>, <<150>>, <<-5>>}
RotationInputs == {<<>>, <<45>>, <<-90>>, <<360>>, <<450>>}
AllPayloads == [mode : ModeInputs, brightness : BrightnessInputs, rotation : RotationInputs]
NoPayload == [mode |-> <<>>, brightness |-> <<>>, rotation |-> <<>>]
\* the bodies sent by the concurrent clients
Payloads ==
    { [NoPayload EXCEPT !.mode = <<3>>],
      [NoPayload EXCEPT !.brightness = <<100>>] }

\* Authorization header: <<>> is a missing header, otherwise the header's
\* text as a sequence of lexemes, " " being one space character.
Headers ==
    { <<>>,
      <<"Bearer", " ", API_TOKEN>> }

\* the header sent by the concurrent clients, which hold the token
Tokens == { <<"Bearer", " ", API_TOKEN>> }

\* the headers of clients with and without the credential: missing, exact,
\* another case of the scheme, another token, another scheme, no scheme,
\* two spaces, no token
AuthHeaders ==
    { <<>>,
      <<"Bearer", " ", API_TOKEN>>,
      <<"bearer", " ", API_TOKEN>>,
      <<"Bearer", " ", "OTHER_TOKEN">>,
      <<"Basic", " ", API_TOKEN>>,
      <<API_TOKEN>>,
      <<"Bearer", " ", " ", API_TOKEN>>,
      <<"Bearer", " ">> }

\* the bodies sent by these clients: two that StateIn accepts, one that it
\* rejects
AuthPayloads ==
    { [NoPayload EXCEPT !.mode = <<3>>],
      [NoPayload EXCEPT !.brightness = <<100>>],
      [NoPayload EXCEPT !.brightness = <<150>>] }

\* the values of the environment variable API_TOKEN: unset, or set to the
\* empty string
ApiTokens == {API_TOKEN, ""}

\* the bodies sent to a server with a backing store: two rotations outside
\* 0..359 that differ after the modulo, and a brightness that StateIn rejects
PersistPayloads ==
    { [NoPayload EXCEPT !.rotation = <<450>>],
      [NoPayload EXCEPT !.rotation = <<-90>>],
      [NoPayload EXCEPT !.brightness = <<150>>] }

\* what the backing store holds at start-up: nothing, or a document written
\* by StateStore.save in an earlier run
SavedDisks == { <<>>, <<[mode |-> 1, brightness |-> 0, rotation |-> 359]>> }

\* the mode of a StateStore with a backing store: STATE_FILE set. A write to
\* a file ends in every way a write to Redis can end.
PersistModes == {"file"}

Fields == {"mode", "brightness", "rotation"}

Min(a, b) == IF a < b THEN a ELSE b
Max(a, b) == IF a > b THEN a ELSE b

VARIABLES
    _state,         \* the module-level document dict
    api_token,      \* the module's API_TOKEN, read from the environment
    store,          \* StateStore: mode = _mode, mem = _mem, disk = the backing
                    \* store's copy (<<>> if none can be read), calls =
                    \* documents passed to save
    active,         \* hub.active
    lock,           \* hub.lock: holder task and FIFO of waiting tasks
    rpc,            \* position of each POST /state request
    payload,        \* its StateIn body
    authorization,  \* its Authorization header
    status,         \* its HTTP status, 0 while unanswered
    response,       \* its response body: <<>> or <<document>>
    message,        \* the message its broadcast carries: <<>> or <<document>>
    snapshot,       \* list(self.active) taken by its broadcast
    remaining,      \* connections of the snapshot not yet sent to
    dead,           \* broadcast's dead list
    last,           \* history: the latest run of the handler body, <<>> if none
    bcalls,         \* history: the requests in the order they called hub.broadcast
    stalled,        \* connections whose peer no longer reads: a send to one
                    \* of them does not complete
    cpc,            \* position of each /ws handler
    alive,          \* whether the socket is usable: the peer has not left
    log             \* what each peer has received, in order

vars == <<api_token, stalled, _state, store, active, lock, rpc, payload, authorization, status,
          response, message, snapshot, remaining, dead, last, bcalls, cpc, alive,
          log>>

reqVars == <<rpc, payload, authorization, status, response, message,
             snapshot, remaining, dead, last, bcalls>>
wsVars == <<cpc, alive>>

(* ---------------- tasks and the lock ---------------- *)
NoTask == <<>>
ReqTask(r) == <<"req", r>>
WsTask(c) == <<"ws", c>>

\* asyncio.Lock.acquire returns at once only when nobody holds the lock and
\* nobody waits for it.
LockFree(l) == l.holder = NoTask /\ l.waiters = <<>>
Acquire(l, t) == [l EXCEPT !.holder = t]
Enqueue(l, t) == [l EXCEPT !.waiters = Append(@, t)]
\* asyncio.Lock.release wakes the first waiter, which then owns the lock.
Release(l) ==
    IF l.waiters = <<>>
    THEN [l EXCEPT !.holder = NoTask]
    ELSE [holder |-> Head(l.waiters), waiters |-> Tail(l.waiters)]

(* ---------------- pure functions ---------------- *)
Present(x) == x # <<>>

\* a StateIn that also restricts rotation to the quarter turns
StateIn_strict(p) ==
    /\ Present(p.mode) => p.mode[1] >= MinMode
    /\ Present(p.brightness) =>
          p.brightness[1] >= MinBrightness /\ p.brightness[1] <= MaxBrightness
    /\ Present(p.rotation) => p.rotation[1] \in {0, 90, 180, 270}

\* StateIn: mode ge=0, brightness ge=0 le=100, rotation unconstrained.
StateIn(p) ==
    /\ Present(p.mode) => p.mode[1] >= MinMode
    /\ Present(p.brightness) =>
          p.brightness[1] >= MinBrightness /\ p.brightness[1] <= MaxBrightness

Lower(s) == IF s \in {"Bearer", "BEARER"} THEN "bearer" ELSE s

\* str.split(" ", 1) on the lexeme sequence
Split1(h) ==
    IF \E i \in 1..Len(h) : h[i] = " "
    THEN LET i == CHOOSE k \in 1..Len(h) :
                     h[k] = " " /\ \A j \in 1..(k - 1) : h[j] # " "
         IN <<SubSeq(h, 1, i - 1), SubSeq(h, i + 1, Len(h))>>
    ELSE <<h>>

auth_ok(h) ==
    IF api_token = "" THEN TRUE
    ELSE IF h = <<>> THEN FALSE
    ELSE LET parts == Split1(h) IN
         IF Len(parts) # 2 THEN FALSE
         ELSE /\ Len(parts[1]) = 1
              /\ Lower(parts[1][1]) = "bearer"
              /\ parts[2] = <<api_token>>

Clamp(b) == Max(MinBrightness, Min(MaxBrightness, b))

current_state(s) ==
    [mode |-> s.mode, brightness |-> s.brightness, rotation |-> s.rotation]

\* StateStore.save's normalisation of its argument
Normalize(s) ==
    [mode |-> s.mode, brightness |-> Clamp(s.brightness), rotation |-> s.rotation % FullTurn]

\* the three `if payload.x is not None and payload.x != _state.get(x)` tests
FieldChanged(s, p, f) == Present(p[f]) /\ p[f][1] # s[f]

\* a change test that forgets `changed = True` for mode
Changed_without_mode(s, p) == \E f \in Fields \ {"mode"} : FieldChanged(s, p, f)

\* a change test that only looks at which fields are present
Changed_if_present(s, p) == \E f \in Fields : Present(p[f])

Changed(s, p) == \E f \in Fields : FieldChanged(s, p, f)

\* an update that rebuilds the document from the defaults
Mutate_from_default(s, p) ==
    [mode |-> IF Present(p.mode) THEN p.mode[1] ELSE DefaultState.mode,
     brightness |-> IF Present(p.brightness)
                    THEN Clamp(p.brightness[1]) ELSE DefaultState.brightness,
     rotation |-> IF Present(p.rotation)
                  THEN p.rotation[1] % FullTurn ELSE DefaultState.rotation]

\* an update that takes an absent rotation for rotation 0
Mutate_reset_rotation(s, p) ==
    [mode |-> IF FieldChanged(s, p, "mode") THEN p.mode[1] ELSE s.mode,
     brightness |-> IF FieldChanged(s, p, "brightness")
                    THEN Clamp(p.brightness[1]) ELSE s.brightness,
     rotation |-> IF Present(p.rotation) THEN p.rotation[1] % FullTurn ELSE 0]

\* an update that stores the values as the body gives them
Mutate_unnormalized(s, p) ==
    [mode |-> IF FieldChanged(s, p, "mode") THEN p.mode[1] ELSE s.mode,
     brightness |-> IF FieldChanged(s, p, "brightness")
                    THEN p.brightness[1] ELSE s.brightness,
     rotation |-> IF FieldChanged(s, p, "rotation")
                  THEN p.rotation[1] ELSE s.rotation]

\* the assignments to _state made by set_state
Mutate(s, p) ==
    [mode |-> IF FieldChanged(s, p, "mode") THEN p.mode[1] ELSE s.mode,
     brightness |-> IF FieldChanged(s, p, "brightness")
                    THEN Clamp(p.brightness[1]) ELSE s.brightness,
     rotation |-> IF FieldChanged(s, p, "rotation")
                  THEN p.rotation[1] % FullTurn ELSE s.rotation]

\* StateStore.__init__: the mode chosen from REDIS_URL and STATE_FILE; dk is
\* what the backing store holds when the process starts
StateStore(md, dk) == [mode |-> md, mem |-> DefaultState, disk |-> dk, calls |-> {}]

\* StateStore.load: the backing store's copy replaces _mem if there is one
load(st) ==
    IF st.mode # "memory" /\ st.disk # <<>>
    THEN [st EXCEPT !.mem = st.disk[1]]
    ELSE st

\* the ways the write of StateStore.save can end: written; an exception
\* before anything is written; an exception after open(STATE_FILE, "w")
\* has truncated the file
WriteOutcomes == {"written", "failed", "truncated"}

\* what the backing store holds after the write of document d
Written(st, d, w) ==
    IF st.mode = "memory" THEN st.disk
    ELSE IF w = "written" THEN <<d>>
    ELSE IF w = "truncated" /\ st.mode = "file" THEN <<>>
    ELSE st.disk

\* a save that keeps _mem when the write fails
save_mem_after_write(st, s, w) ==
    [mode |-> st.mode,
     mem |-> IF st.mode = "memory" \/ w = "written" THEN Normalize(s) ELSE st.mem,
     disk |-> Written(st, Normalize(s), w),
     calls |-> st.calls \cup {s}]

save(st, s, w) ==
    [mode |-> st.mode,
     mem |-> Normalize(s),
     disk |-> Written(st, Normalize(s), w),
     calls |-> st.calls \cup {s}]

SyncMsg(d) == [kind |-> "sync", src |-> 0, doc |-> d]
BcastMsg(r, d) == [kind |-> "bcast", src |-> r, doc |-> d]

(* ---------------- initial state ---------------- *)
\* module level and lifespan start-up: the configuration is read, the store
\* is built and `_state = store.load()`
Boot(tok, md, dk) ==
    /\ api_token = tok
    /\ store = load(StateStore(md, dk))
    /\ _state = store.mem
    /\ stalled = {}
    /\ active = {}
    /\ lock = [holder |-> NoTask, waiters |-> <<>>]
    /\ rpc = [r \in Requests |-> "idle"]
    /\ payload = [r \in Requests |-> NoPayload]
    /\ authorization = [r \in Requests |-> <<>>]
    /\ status = [r \in Requests |-> 0]
    /\ response = [r \in Requests |-> <<>>]
    /\ message = [r \in Requests |-> <<>>]
    /\ snapshot = [r \in Requests |-> {}]
    /\ remaining = [r \in Requests |-> {}]
    /\ dead = [r \in Requests |-> {}]
    /\ last = <<>>
    /\ bcalls = <<>>
    /\ cpc = [c \in Connections |-> "new"]
    /\ alive = [c \in Connections |-> TRUE]
    /\ log = [c \in Connections |-> <<>>]

\* no environment variable set: the default token, memory mode
Init == Boot(API_TOKEN, "memory", <<>>)

(* ---------------- Hub.broadcast ---------------- *)
\* one `await ws.send_json(message)` of the loop over list(self.active):
\* the peer receives m, or the send raises and ws joins the dead list.
\* A send to a stalled peer neither returns nor raises.
broadcast_send(r, ws, ok, m, rem) ==
    /\ remaining' = [remaining EXCEPT ![r] = rem \ {ws}]
    /\ IF ws \in stalled
       THEN /\ rpc' = [rpc EXCEPT ![r] = "stuck"]
            /\ UNCHANGED <<log, dead>>
       ELSE /\ rpc' = [rpc EXCEPT ![r] = "sending"]
            /\ IF alive[ws] /\ ok
               THEN /\ log' = [log EXCEPT ![ws] = Append(@, BcastMsg(r, m))]
                    /\ dead' = dead
               ELSE /\ log' = log
                    /\ dead' = [dead EXCEPT ![r] = @ \cup {ws}]

\* a prune that forgets the dead list
Prune_none(act, d) == act

\* the set left in hub.active by `for ws in dead: self.active.discard(ws)`
Prune(act, d) == act \ d

\* after the loop: the dead are discarded, the lock is released and
\* set_state returns JSONResponse(current_state()).
broadcast_finish(r, lk, d, s) ==
    /\ active' = Prune(active, d)
    /\ message' = [message EXCEPT ![r] = <<>>]
    /\ snapshot' = [snapshot EXCEPT ![r] = {}]
    /\ remaining' = [remaining EXCEPT ![r] = {}]
    /\ dead' = [dead EXCEPT ![r] = {}]
    /\ lock' = Release(lk)
    /\ rpc' = [rpc EXCEPT ![r] = "done"]
    /\ status' = [status EXCEPT ![r] = HTTP_OK]
    /\ response' = [response EXCEPT ![r] = <<current_state(s)>>]

\* broadcast from the point where it owns the lock up to its first suspension
broadcast_locked(r, lk, m, s) ==
    IF active = {}
    THEN /\ broadcast_finish(r, lk, {}, s)
         /\ log' = log
    ELSE /\ \E ws \in active, ok \in BOOLEAN : broadcast_send(r, ws, ok, m, active)
         /\ snapshot' = [snapshot EXCEPT ![r] = active]
         /\ message' = [message EXCEPT ![r] = <<m>>]
         /\ lock' = lk
         /\ UNCHANGED <<active, status, response>>

\* a broadcast that does not take hub.lock
broadcast_unlocked(r, m, s) == broadcast_locked(r, lock, m, s)

broadcast(r, m, s) ==
    IF LockFree(lock)
    THEN broadcast_locked(r, Acquire(lock, ReqTask(r)), m, s)
    ELSE /\ lock' = Enqueue(lock, ReqTask(r))
         /\ rpc' = [rpc EXCEPT ![r] = "waitlock"]
         /\ message' = [message EXCEPT ![r] = <<m>>]
         /\ UNCHANGED <<active, log, status, response, snapshot, remaining, dead>>

\* a change that is broadcast without being saved
save_and_broadcast_unsaved(r, s) ==
    /\ store' = store
    /\ broadcast(r, current_state(s), s)

save_and_broadcast(r, s) ==
    /\ \E w \in WriteOutcomes : store' = save(store, s, w)
    /\ broadcast(r, current_state(s), s)

(* ---------------- POST /state ---------------- *)
Answer(r, code, body) ==
    /\ rpc' = [rpc EXCEPT ![r] = "done"]
    /\ status' = [status EXCEPT ![r] = code]
    /\ response' = [response EXCEPT ![r] = body]

set_state(r, p, h) ==
    /\ rpc[r] = "idle"
    /\ \A q \in Requests : q < r => rpc[q] # "idle"
    /\ payload' = [payload EXCEPT ![r] = p]
    /\ authorization' = [authorization EXCEPT ![r] = h]
    /\ UNCHANGED wsVars
    /\ UNCHANGED <<api_token, stalled>>
    /\ IF ~StateIn(p)
       THEN /\ Answer(r, HTTP_UNPROCESSABLE, <<>>)
            /\ UNCHANGED <<_state, store, active, lock, message, snapshot,
                           remaining, dead, last, bcalls, log>>
       ELSE IF ~auth_ok(h)
       THEN /\ Answer(r, HTTP_UNAUTHORIZED, <<>>)
            /\ UNCHANGED <<_state, store, active, lock, message, snapshot,
                           remaining, dead, last, bcalls, log>>
       ELSE /\ _state' = Mutate(_state, p)
            /\ last' = <<[payload |-> p, changed |-> Changed(_state, p)]>>
            /\ IF Changed(_state, p)
               THEN /\ save_and_broadcast(r, Mutate(_state, p))
                    /\ bcalls' = Append(bcalls, r)
               ELSE /\ Answer(r, HTTP_OK, <<current_state(Mutate(_state, p))>>)
                    /\ UNCHANGED <<store, active, lock, message, snapshot,
                                   remaining, dead, bcalls, log>>

\* the broadcast gets the lock it waited for
BroadcastWake(r) ==
    /\ rpc[r] = "waitlock"
    /\ lock.holder = ReqTask(r)
    /\ broadcast_locked(r, lock, message[r][1], _state)
    /\ UNCHANGED <<_state, store, payload, authorization, last, bcalls>>
    /\ UNCHANGED wsVars
    /\ UNCHANGED <<api_token, stalled>>

\* the broadcast resumes after a send: next send, or the end of the loop
BroadcastResume(r) ==
    /\ rpc[r] = "sending"
    /\ IF remaining[r] = {}
       THEN /\ broadcast_finish(r, lock, dead[r], _state)
            /\ log' = log
       ELSE /\ \E ws \in remaining[r], ok \in BOOLEAN :
                   broadcast_send(r, ws, ok, message[r][1], remaining[r])
            /\ UNCHANGED <<active, lock, status, response, message, snapshot>>
    /\ UNCHANGED <<_state, store, payload, authorization, last, bcalls>>
    /\ UNCHANGED wsVars
    /\ UNCHANGED <<api_token, stalled>>

(* ---------------- /ws ---------------- *)
\* the handler has returned: the server side of the socket is closed
ws_closed(c) ==
    /\ cpc' = [cpc EXCEPT ![c] = "closed"]
    /\ alive' = [alive EXCEPT ![c] = FALSE]

\* an unregister that leaves the connection in hub.active
ws_unregister_leak(c, lk, act) ==
    IF LockFree(lk)
    THEN /\ active' = act
         /\ lock' = lk
         /\ ws_closed(c)
    ELSE /\ active' = act
         /\ lock' = Enqueue(lk, WsTask(c))
         /\ cpc' = [cpc EXCEPT ![c] = "waitunreg"]
         /\ alive' = alive

\* `finally: await hub.unregister(ws)` up to its first suspension
ws_unregister(c, lk, act) ==
    IF LockFree(lk)
    THEN /\ active' = act \ {c}
         /\ lock' = lk
         /\ ws_closed(c)
    ELSE /\ active' = act
         /\ lock' = Enqueue(lk, WsTask(c))
         /\ cpc' = [cpc EXCEPT ![c] = "waitunreg"]
         /\ alive' = alive

\* a handler that sends the document it read at start-up
ws_registered_stale(c, lk, ok) ==
    IF alive[c] /\ ok
    THEN /\ log' = [log EXCEPT ![c] = Append(@, SyncMsg(current_state(DefaultState)))]
         /\ active' = active \cup {c}
         /\ lock' = lk
         /\ cpc' = [cpc EXCEPT ![c] = "open"]
         /\ alive' = alive
    ELSE /\ log' = log
         /\ ws_unregister(c, lk, active \cup {c})

\* the handler from `self.active.add(ws)` on: the lock is released, the
\* synchronization message is sent, and a failed send leads to the finally.
ws_registered(c, lk, ok) ==
    IF alive[c] /\ ok
    THEN /\ log' = [log EXCEPT ![c] = Append(@, SyncMsg(current_state(_state)))]
         /\ active' = active \cup {c}
         /\ lock' = lk
         /\ cpc' = [cpc EXCEPT ![c] = "open"]
         /\ alive' = alive
    ELSE /\ log' = log
         /\ ws_unregister(c, lk, active \cup {c})

\* `await ws.accept()` completes the handshake of a new connection
WsAccept(c) ==
    /\ cpc[c] = "new"
    /\ \A q \in Connections : q < c => cpc[q] # "new"
    /\ cpc' = [cpc EXCEPT ![c] = "accepted"]
    /\ alive' = alive
    /\ UNCHANGED <<_state, store, active, lock, log>>
    /\ UNCHANGED reqVars
    /\ UNCHANGED <<api_token, stalled>>

WsRegister(c) ==
    /\ cpc[c] = "accepted"
    /\ IF LockFree(lock)
       THEN \E ok \in BOOLEAN : ws_registered(c, lock, ok)
       ELSE /\ lock' = Enqueue(lock, WsTask(c))
            /\ cpc' = [cpc EXCEPT ![c] = "waitreg"]
            /\ UNCHANGED <<active, log, alive>>
    /\ UNCHANGED <<_state, store>>
    /\ UNCHANGED reqVars
    /\ UNCHANGED <<api_token, stalled>>

WsRegisterWake(c) ==
    /\ cpc[c] = "waitreg"
    /\ lock.holder = WsTask(c)
    /\ \E ok \in BOOLEAN : ws_registered(c, Release(lock), ok)
    /\ UNCHANGED <<_state, store>>
    /\ UNCHANGED reqVars
    /\ UNCHANGED <<api_token, stalled>>

\* `await ws.receive_text()` raises: WebSocketDisconnect, or another
\* exception of a socket that is no longer usable
WsDisconnect(c) ==
    /\ cpc[c] = "open"
    /\ ~alive[c]
    /\ ws_unregister(c, lock, active)
    /\ UNCHANGED <<_state, store, log>>
    /\ UNCHANGED reqVars
    /\ UNCHANGED <<api_token, stalled>>

WsUnregisterWake(c) ==
    /\ cpc[c] = "waitunreg"
    /\ lock.holder = WsTask(c)
    /\ active' = active \ {c}
    /\ lock' = Release(lock)
    /\ ws_closed(c)
    /\ UNCHANGED <<_state, store, log>>
    /\ UNCHANGED reqVars
    /\ UNCHANGED <<api_token, stalled>>

\* the peer closes its side of the socket, or the transport breaks
PeerClose(c) ==
    /\ alive[c]
    /\ c \notin stalled
    /\ cpc[c] \notin {"new", "closed"}
    /\ alive' = [alive EXCEPT ![c] = FALSE]
    /\ UNCHANGED <<_state, store, active, lock, log, cpc>>
    /\ UNCHANGED reqVars
    /\ UNCHANGED <<api_token, stalled>>

\* the peer of a registered connection stops reading for good
PeerStall(c) ==
    /\ cpc[c] = "open"
    /\ alive[c]
    /\ c \in active
    /\ c \notin stalled
    /\ stalled' = stalled \cup {c}
    /\ UNCHANGED <<api_token, _state, store, active, lock, log, cpc, alive>>
    /\ UNCHANGED reqVars

(* ---------------- specification ---------------- *)
Next ==
    \/ \E r \in Requests, p \in Payloads, h \in Tokens : set_state(r, p, h)
    \/ \E r \in Requests : BroadcastWake(r)
    \/ \E r \in Requests : BroadcastResume(r)
    \/ \E c \in Connections : WsAccept(c)
    \/ \E c \in Connections : WsRegister(c)
    \/ \E c \in Connections : WsRegisterWake(c)
    \/ \E c \in Connections : WsDisconnect(c)
    \/ \E c \in Connections : WsUnregisterWake(c)
    \/ \E c \in Connections : PeerClose(c)

Spec == Init /\ [][Next]_vars

\* clients with and without the token sending every body of AllPayloads,
\* no connection being open
ApplyNext ==
    \E r \in Requests, p \in AllPayloads, h \in Headers : set_state(r, p, h)

ApplySpec == Init /\ [][ApplyNext]_vars

\* clients with all kinds of Authorization header, the server running with
\* or without a token
AuthInit == \E tok \in ApiTokens : Boot(tok, "memory", <<>>)

AuthNext ==
    \/ \E r \in Requests, p \in AuthPayloads, h \in AuthHeaders : set_state(r, p, h)
    \/ \E r \in Requests : BroadcastWake(r)
    \/ \E r \in Requests : BroadcastResume(r)
    \/ \E c \in Connections : WsAccept(c)
    \/ \E c \in Connections : WsRegister(c)
    \/ \E c \in Connections : WsRegisterWake(c)
    \/ \E c \in Connections : WsDisconnect(c)
    \/ \E c \in Connections : WsUnregisterWake(c)
    \/ \E c \in Connections : PeerClose(c)

AuthSpec == AuthInit /\ [][AuthNext]_vars

\* a server with a backing store whose writes can fail, and clients that stay
\* connected
PersistInit == \E md \in PersistModes, dk \in SavedDisks : Boot(API_TOKEN, md, dk)

PersistNext ==
    \/ \E r \in Requests, p \in PersistPayloads, h \in Tokens : set_state(r, p, h)
    \/ \E r \in Requests : BroadcastWake(r)
    \/ \E r \in Requests : BroadcastResume(r)
    \/ \E c \in Connections : WsAccept(c)
    \/ \E c \in Connections : WsRegister(c)
    \/ \E c \in Connections : WsRegisterWake(c)
    \/ \E c \in Connections : WsUnregisterWake(c)

PersistSpec == PersistInit /\ [][PersistNext]_vars

\* clients whose peer can stop reading. The event loop runs every task that
\* is ready: a task that holds the lock it waited for, a broadcast whose
\* send has returned or raised, a handler whose accept or receive has
\* returned; the arrival of requests and the peers are not constrained.
StuckNext ==
    \/ \E r \in Requests, p \in Payloads, h \in Tokens : set_state(r, p, h)
    \/ \E r \in Requests : BroadcastWake(r)
    \/ \E r \in Requests : BroadcastResume(r)
    \/ \E c \in Connections : WsAccept(c)
    \/ \E c \in Connections : WsRegister(c)
    \/ \E c \in Connections : WsRegisterWake(c)
    \/ \E c \in Connections : WsDisconnect(c)
    \/ \E c \in Connections : WsUnregisterWake(c)
    \/ \E c \in Connections : PeerClose(c)
    \/ \E c \in Connections : PeerStall(c)

EventLoop ==
    /\ \A r \in Requests : WF_vars(BroadcastWake(r)) /\ WF_vars(BroadcastResume(r))
    /\ \A c \in Connections :
          /\ WF_vars(WsRegister(c))
          /\ WF_vars(WsRegisterWake(c))
          /\ WF_vars(WsDisconnect(c))
          /\ WF_vars(WsUnregisterWake(c))

StuckSpec == Init /\ [][StuckNext]_vars /\ EventLoop

TypeOK ==
    /\ active \subseteq Connections
    /\ stalled \subseteq Connections
    /\ \A r \in Requests : rpc[r] \in {"idle", "waitlock", "sending", "stuck", "done"}
    /\ \A c \in Connections :
          cpc[c] \in {"new", "accepted", "waitreg", "open", "waitunreg", "closed"}

(* ---------------- properties ---------------- *)
Last(q) == q[Len(q)]

\* the request passed validation and authorization: the handler body ran
Accepted(r) == StateIn(payload[r]) /\ auth_ok(authorization[r])

\* no POST /state is between its arrival and its response
Quiescent == \A r \in Requests : rpc[r] \in {"idle", "done"}

\* the step in which request r arrives and runs up to its first suspension
Arrives(r) == rpc[r] = "idle" /\ rpc'[r] # "idle"

\* the connections that have received request r's broadcast message
Delivered(r) ==
    {c \in Connections : \E i \in DOMAIN log[c] : log[c][i].kind = "bcast" /\ log[c][i].src = r}

\* C1: a document is passed to StateStore.save before the broadcast of it
\* starts: every message a broadcast holds or has delivered carries a
\* document that was passed to save.
C1_SaveBeforeBroadcast ==
    /\ \A r \in Requests : message[r] # <<>> => message[r][1] \in store.calls
    /\ \A c \in Connections : \A i \in DOMAIN log[c] :
          log[c][i].kind = "bcast" => log[c][i].doc \in store.calls

C1_Witness ==
    \E c \in Connections : \E i \in DOMAIN log[c] :
       /\ log[c][i].kind = "bcast"
       /\ log[c][i].doc # DefaultState
       /\ log[c][i].doc \in store.calls

\* C2: when no POST /state is in progress, every registered connection that
\* has received anything has received the current document last, and every
\* registered connection in its receive loop has received something.
C2_NoStaleConnection ==
    Quiescent =>
       \A c \in active :
          /\ cpc[c] = "open" => log[c] # <<>>
          /\ log[c] # <<>> => Last(log[c]).doc = current_state(_state)

\* a connection registered while a broadcast was running and is up to date
C2_Witness ==
    /\ Quiescent
    /\ _state # DefaultState
    /\ \E c, d \in active :
          /\ Len(log[c]) >= 2 /\ Last(log[c]).kind = "bcast"
          /\ Len(log[d]) = 1 /\ log[d][1].doc # DefaultState
          /\ Last(log[d]).doc = current_state(_state)

\* C3: a connection gets at most one synchronization message, a connection
\* in its receive loop has got it as its first message, and the message
\* carries the document of the moment it is sent and follows no other message.
C3_OneSyncOfCurrent ==
    /\ [](\A c \in Connections :
            /\ Cardinality({i \in DOMAIN log[c] : log[c][i].kind = "sync"}) <= 1
            /\ cpc[c] = "open" => (log[c] # <<>> /\ log[c][1].kind = "sync"))
    /\ [][\A c \in Connections :
            (log'[c] # log[c] /\ Last(log'[c]).kind = "sync")
               => /\ log'[c] = Append(log[c], SyncMsg(current_state(_state')))
                  /\ log[c] = <<>>]_vars

\* a connection registered after a broadcast of a changed document and has
\* received the synchronization message only
C3_Witness ==
    /\ Quiescent
    /\ _state # DefaultState
    /\ \E r \in Requests : rpc[r] = "done" /\ Delivered(r) # {}
    /\ \E c \in active : cpc[c] = "open" /\ log[c] = <<SyncMsg(current_state(_state))>>

\* the value a present field of a body gives the document's field
FieldValue(f, v) ==
    IF f = "brightness" THEN Max(0, Min(100, v))
    ELSE IF f = "rotation" THEN v % 360
    ELSE v

\* C4: no lost update: a field set by exactly one accepted request has that
\* request's value, whatever the other requests do at the same time, and
\* an accepted request is answered 200.
C4_NoLostUpdate ==
    \A r \in Requests :
       (rpc[r] # "idle" /\ Accepted(r)) =>
          /\ status[r] \in {0, HTTP_OK}
          /\ rpc[r] = "done" => status[r] = HTTP_OK
          /\ \A f \in Fields :
                (/\ Present(payload[r][f])
                 /\ \A q \in Requests \ {r} : ~(Accepted(q) /\ Present(payload[q][f])))
                   => _state[f] = FieldValue(f, payload[r][f][1])

\* two requests in flight at once, one setting mode, one setting brightness
C4_Witness ==
    \E r, q \in Requests :
       /\ rpc[r] = "sending" /\ rpc[q] = "waitlock"
       /\ payload[r] = [NoPayload EXCEPT !.mode = <<3>>]
       /\ payload[q] = [NoPayload EXCEPT !.brightness = <<100>>]
       /\ _state.mode = 3 /\ _state.brightness = 100

\* C5: applying the same body twice in a row leaves the document of the
\* first application and the two applications broadcast at most once.
C5_IdempotentApply ==
    [][\A r \in Requests :
          (/\ Arrives(r)
           /\ StateIn(payload'[r]) /\ auth_ok(authorization'[r])
           /\ last # <<>> /\ payload'[r] = last[1].payload)
             => /\ _state' = _state
                /\ ~(last[1].changed /\ last'[1].changed)]_vars

\* C6: a body whose present fields all equal the current values changes
\* nothing: no save, no broadcast, no message to any connection.
C6_NoOpWhenEqual ==
    [][\A r \in Requests :
          (/\ Arrives(r)
           /\ StateIn(payload'[r]) /\ auth_ok(authorization'[r])
           /\ \A f \in Fields : Present(payload'[r][f]) => payload'[r][f][1] = _state[f])
             => /\ _state' = _state
                /\ store' = store
                /\ log' = log
                /\ active' = active /\ lock' = lock
                /\ message'[r] = <<>>
                /\ rpc'[r] = "done" /\ status'[r] = HTTP_OK]_vars

\* a request repeated a value while a connection was registered
C6_Witness ==
    /\ last # <<>>
    /\ ~last[1].changed
    /\ last[1].payload # NoPayload
    /\ \A f \in Fields :
          Present(last[1].payload[f]) => last[1].payload[f][1] = _state[f]
    /\ \E c \in active : cpc[c] = "open" /\ alive[c]

\* C7: a brightness outside 0..100 is clamped, not rejected: the request is
\* answered 200 and the document's brightness is max(0, min(100, b)).
C7_BrightnessClamped ==
    \A r \in Requests :
       (/\ rpc[r] = "done"
        /\ auth_ok(authorization[r])
        /\ Present(payload[r].brightness)
        /\ ~Present(payload[r].mode)
        /\ \A q \in Requests \ {r} : rpc[q] = "idle")
          => /\ status[r] = HTTP_OK
             /\ _state.brightness = Max(0, Min(100, payload[r].brightness[1]))

\* C8: a body whose other fields are valid is never rejected for its
\* rotation r, and the document's rotation becomes r mod 360, in 0..359.
C8_RotationModulo ==
    [][\A r \in Requests :
          (/\ Arrives(r)
           /\ Present(payload'[r].rotation)
           /\ StateIn([payload'[r] EXCEPT !.rotation = <<>>])
           /\ auth_ok(authorization'[r]))
             => LET v == payload'[r].rotation[1] IN
                /\ status'[r] = HTTP_OK
                /\ _state'.rotation \in 0..359
                /\ \E k \in -2..2 : v = _state'.rotation + 360 * k
                /\ v = 45 => _state'.rotation = 45
                /\ v = -90 => _state'.rotation = 270
                /\ v = 360 => _state'.rotation = 0]_vars

C8_Witness ==
    \E r \in Requests :
       /\ rpc[r] = "done" /\ status[r] = HTTP_OK
       /\ payload[r].rotation = <<-90>>
       /\ last # <<>> /\ last[1].payload = payload[r]
       /\ _state.rotation = 270

\* C9: a request's mutation step leaves every field absent from its body
\* as it was.
C9_AbsentFieldsKept ==
    [][\A r \in Requests :
          Arrives(r) =>
             \A f \in Fields : ~Present(payload'[r][f]) => _state'[f] = _state[f]]_vars

\* a request changed one field of a document whose other fields had been
\* changed before
C9_Witness ==
    /\ last # <<>>
    /\ last[1].changed
    /\ \E f \in Fields :
          ~Present(last[1].payload[f]) /\ _state[f] # DefaultState[f]

\* C10: a broadcast attempts each connection of its snapshot once; a failed
\* send, as to a closed connection, puts the connection on the dead list
\* and a successful one delivers the message; at the end exactly the dead
\* are removed from hub.active and the request is answered 200.
C10_BroadcastPrunesFailed ==
    [][\A r \in Requests :
          /\ (rpc[r] = "sending" /\ rpc'[r] = "done") =>
                /\ status'[r] = HTTP_OK
                /\ Delivered(r) \cup dead[r] = snapshot[r]
                /\ Delivered(r) \cap dead[r] = {}
                /\ active' = active \ dead[r]
                /\ Delivered(r) \cap active \subseteq active'
          /\ \A ws \in Connections :
                (rpc'[r] = "sending" /\ ws \in snapshot'[r]
                   /\ ws \notin remaining'[r]
                   /\ (rpc[r] # "sending" \/ ws \in remaining[r])) =>
                   /\ ~alive[ws] => ws \in dead'[r]
                   /\ \/ /\ ws \in dead'[r]
                         /\ log'[ws] = log[ws]
                      \/ /\ ws \notin dead'[r]
                         /\ log'[ws] = Append(log[ws], BcastMsg(r, message'[r][1]))]_vars

\* a finished broadcast has delivered to a healthy connection and removed
\* a closed one whose handler has not yet seen the disconnect
C10_Witness ==
    /\ \E r \in Requests :
          /\ rpc[r] = "done" /\ \A q \in Requests \ {r} : rpc[q] = "idle"
          /\ \E c \in active : c \in Delivered(r) /\ alive[c]
    /\ \E c \in Connections : cpc[c] = "open" /\ ~alive[c] /\ c \notin active

\* the position of request r in the order of the hub.broadcast calls
CallIndex(r) == CHOOSE i \in DOMAIN bcalls : bcalls[i] = r

\* C11: every connection receives the broadcast messages in the order in
\* which hub.broadcast was called, also when the calls had to wait for
\* hub.lock.
C11_FifoPerConnection ==
    \A c \in Connections : \A i, j \in DOMAIN log[c] :
       (i < j /\ log[c][i].kind = "bcast" /\ log[c][j].kind = "bcast")
          => /\ \E k \in DOMAIN bcalls : bcalls[k] = log[c][i].src
             /\ \E k \in DOMAIN bcalls : bcalls[k] = log[c][j].src
             /\ CallIndex(log[c][i].src) < CallIndex(log[c][j].src)

\* a connection has received two broadcasts in call order, the second
\* called while the first was still running (the first request's response
\* already shows the second request's change)
C11_Witness ==
    \E c \in Connections, r, q \in Requests :
       /\ r # q
       /\ \E i, j \in DOMAIN log[c] :
             /\ i < j
             /\ log[c][i].kind = "bcast" /\ log[c][i].src = r
             /\ log[c][j].kind = "bcast" /\ log[c][j].src = q
             /\ response[r] # <<>> /\ response[r][1] # log[c][i].doc

\* C15: a connection whose handler has finished is not in hub.active and
\* stays finished; the unregister of a connection that a broadcast has
\* already removed changes nothing in hub.active.
C15_NoLeakedSlot ==
    /\ [](\A c \in Connections : cpc[c] = "closed" => c \notin active)
    /\ [][\A c \in Connections :
            /\ cpc[c] = "closed" => cpc'[c] = "closed"
            /\ (cpc[c] # "closed" /\ cpc'[c] = "closed")
                  => /\ active' = active \ {c}
                     /\ c \notin active => active' = active]_vars

\* a handler is about to unregister a connection that a broadcast removed
\* while the handler waited for the lock
C15_Witness ==
    \E c \in Connections :
       /\ cpc[c] = "waitunreg"
       /\ lock.holder = WsTask(c)
       /\ c \notin active

\* request r is between its mutation and the end of its broadcast
InApply(r) == rpc[r] \in {"waitlock", "sending"}

\* C16: applies are serialized: no two requests are at once between their
\* mutation and the end of their broadcast, and no request mutates or
\* saves while another request's broadcast is pending.
C16_AppliesSerialized ==
    /\ [](\A r, q \in Requests : (InApply(r) /\ InApply(q)) => r = q)
    /\ [][(\E r \in Requests : InApply(r)) => (_state' = _state /\ store' = store)]_vars

\* C17: hub.lock is not held across a delivery: no register or unregister
\* waits for the lock, and no broadcast waits behind a connection's handler.
C17_LockNotHeldAcrossSend ==
    /\ \A c \in Connections : cpc[c] \notin {"waitreg", "waitunreg"}
    /\ \A r \in Requests :
          rpc[r] = "waitlock" =>
             \A i \in DOMAIN lock.waiters : lock.waiters[i][1] # "ws"

\* C20: a connection is in its receive loop only while it is a member of
\* hub.active: a connection removed from the hub after a failed send is
\* closed.
C20_OpenOnlyWhileMember ==
    \A c \in Connections : cpc[c] = "open" => c \in active

\* the header has the form "Bearer <token>" with the configured token, the
\* scheme in any case
GoodHeader(h) == \E sch \in {"Bearer", "bearer", "BEARER"} : h = <<sch, " ", api_token>>

\* the step changes nothing outside the request's own record
NoSideEffect ==
    UNCHANGED <<_state, store, active, lock, log, message, snapshot, remaining,
                dead, last, bcalls>>

\* C12: with a token configured, a request whose Authorization header is
\* missing, not of the form "Bearer <token>" or carries another token is
\* answered 401 and has no side effect; with no token configured no
\* request is answered 401.
C12_AuthGate ==
    [][\A r \in Requests :
          Arrives(r) =>
             /\ (api_token # "" /\ ~GoodHeader(authorization'[r]))
                   => /\ rpc'[r] = "done"
                      /\ status'[r] = HTTP_UNAUTHORIZED
                      /\ NoSideEffect
             /\ api_token = "" => status'[r] # HTTP_UNAUTHORIZED]_vars

\* the gate as the handler implements it: the body is validated first, so
\* the 401 is the answer to the requests whose body StateIn accepts, and a
\* rejected request has no side effect whichever its status is
AuthGateAfterValidation ==
    [][\A r \in Requests :
          Arrives(r) =>
             /\ (api_token # "" /\ ~GoodHeader(authorization'[r]))
                   => /\ rpc'[r] = "done"
                      /\ status'[r] = IF StateIn(payload'[r])
                                      THEN HTTP_UNAUTHORIZED
                                      ELSE HTTP_UNPROCESSABLE
                      /\ NoSideEffect
             /\ (api_token # "" /\ GoodHeader(authorization'[r]))
                   => status'[r] # HTTP_UNAUTHORIZED
             /\ api_token = "" => status'[r] # HTTP_UNAUTHORIZED]_vars

\* C13: when the write to the backing store fails during a changing POST
\* /state, the document and StateStore._mem still take the new value,
\* hub.broadcast is still called with the new document, which is what the
\* connections receive, and the request is answered 200.
C13_PersistenceFaultTolerated ==
    [][/\ \A r \in Requests :
            (/\ Arrives(r)
             /\ StateIn(payload'[r]) /\ auth_ok(authorization'[r])
             /\ Changed(_state, payload'[r])
             /\ store'.disk # <<Normalize(Mutate(_state, payload'[r]))>>)
               => /\ _state' = Mutate(_state, payload'[r])
                  /\ store'.mem = Normalize(_state')
                  /\ bcalls' = Append(bcalls, r)
                  /\ \/ /\ rpc'[r] = "done"
                        /\ status'[r] = HTTP_OK
                        /\ active = {}
                     \/ /\ rpc'[r] \in {"waitlock", "sending"}
                        /\ status'[r] = 0
                        /\ message'[r] = <<current_state(_state')>>
       /\ \A r \in Requests :
            (rpc[r] \in {"waitlock", "sending"} /\ rpc'[r] = "done")
               => status'[r] = HTTP_OK
       /\ \A c \in Connections :
            (log'[c] # log[c] /\ Last(log'[c]).kind = "bcast")
               => <<Last(log'[c]).doc>> = message'[Last(log'[c]).src]]_vars

\* a request is answered 200 and a connection has received its broadcast of
\* the current document, which the backing store does not hold
C13_Witness ==
    \E r \in Requests, c \in Connections :
       /\ rpc[r] = "done" /\ status[r] = HTTP_OK
       /\ response[r] = <<current_state(_state)>>
       /\ store.mem = _state
       /\ store.disk # <<_state>>
       /\ log[c] # <<>>
       /\ Last(log[c]) = BcastMsg(r, current_state(_state))

\* C14: the response of a POST /state answered 200 carries, for every field
\* present in the body, the normalized value of that body, also when other
\* requests run at the same time.
C14_ResponseIsOwnResult ==
    \A r \in Requests :
       (rpc[r] = "done" /\ status[r] = HTTP_OK) =>
          \A f \in Fields :
             Present(payload[r][f]) =>
                response[r][1][f] = FieldValue(f, payload[r][f][1])

\* the ranges of the fields of a document
InRange(d) ==
    /\ d.brightness \in MinBrightness..MaxBrightness
    /\ d.rotation \in 0..(FullTurn - 1)
    /\ d.mode >= MinMode

\* C19: the in-memory document, StateStore._mem, the backing store's copy,
\* every message held or delivered and every response have brightness in
\* 0..100, rotation in 0..359 and mode >= 0.
C19_RangeInvariant ==
    /\ InRange(_state)
    /\ InRange(store.mem)
    /\ store.disk # <<>> => InRange(store.disk[1])
    /\ \A r \in Requests :
          /\ message[r] # <<>> => InRange(message[r][1])
          /\ response[r] # <<>> => InRange(response[r][1])
    /\ \A c \in Connections : \A i \in DOMAIN log[c] : InRange(log[c][i].doc)

\* a rotation outside 0..359 has been applied to a document loaded from the
\* backing store, written back and delivered to a connection
C19_Witness ==
    /\ \E r \in Requests :
          /\ rpc[r] = "done" /\ status[r] = HTTP_OK
          /\ Present(payload[r].rotation)
          /\ payload[r].rotation[1] \notin 0..(FullTurn - 1)
          /\ \E c \in Connections : c \in Delivered(r)
    /\ _state.mode = 1
    /\ store.disk = <<_state>>

\* C18: a peer whose send never completes does not block the others: every
\* healthy connection a broadcast has still to send to is eventually sent
\* to, and every broadcast, register and unregister that waits for hub.lock
\* eventually gets it and completes.
C18_StuckPeerDoesNotBlock ==
    /\ \A r \in Requests, c \in Connections :
          (c \in remaining[r] /\ alive[c] /\ c \notin stalled)
             ~> (c \notin remaining[r])
    /\ \A r \in Requests : (rpc[r] = "waitlock") ~> (rpc[r] = "done")
    /\ \A c \in Connections : (cpc[c] = "waitreg") ~> (cpc[c] # "waitreg")
    /\ \A c \in Connections : (cpc[c] = "waitunreg") ~> (cpc[c] = "closed")

====
